---- MODULE Spec2Model ----
(***************************************************************************)
(* Model of the data-access helpers of python/utils.py: construct_path,    *)
(* read_feather_gcs, read_parquet_gcs, read_swc_from_gcs and               *)
(* batch_read_swc_from_gcs.                                                *)
(*                                                                         *)
(* Python strings that the code splits, searches or rewrites are modelled  *)
(* as sequences of one-character strings.  File contents are sequences of  *)
(* tokens ("bytes").  The object store behind gcs_fs is the variable       *)
(* remote, the local disk is files/dirs, and last is the record of the     *)
(* most recent call: its arguments, the disk before it, the calls it made  *)
(* on the client and on the disk (log), and what it returned or raised.    *)
(* procs holds the position and the locals of each of two processes that   *)
(* run a fetch at the same time; it is used by SpecRace alone.             *)
(***************************************************************************)
EXTENDS Naturals, Sequences, FiniteSets

VARIABLES remote, files, dirs, last, procs

vars == <<remote, files, dirs, last, procs>>

(***************************************************************************)
(* Python values                                                           *)
(***************************************************************************)
\* Python None for an optional argument, and a given value v.
NoneVal == [none |-> TRUE, v |-> <<>>]

Some(x) == [none |-> FALSE, v |-> x]

(***************************************************************************)
(* str operations used by the code                                         *)
(***************************************************************************)
\* A prefix test that compares the lengths only.
startswith_length_only(s, prefix) == Len(prefix) <= Len(s)

\* s.startswith(prefix)
startswith(s, prefix) ==
    /\ Len(prefix) <= Len(s)
    /\ SubSeq(s, 1, Len(prefix)) = prefix

\* True when old occurs in s at position i.
OccursAt(s, old, i) ==
    /\ i + Len(old) - 1 <= Len(s)
    /\ SubSeq(s, i, i + Len(old) - 1) = old

\* s.replace(old, new) for a non-empty old: every non-overlapping occurrence,
\* scanning left to right.
RECURSIVE str_replace(_, _, _)
str_replace(s, old, new) ==
    IF s = <<>> THEN <<>>
    ELSE IF OccursAt(s, old, 1)
         THEN new \o str_replace(SubSeq(s, Len(old) + 1, Len(s)), old, new)
         ELSE <<Head(s)>> \o str_replace(Tail(s), old, new)

\* s.split(sep) for a one-character sep: the list of pieces.
RECURSIVE str_split(_, _)
str_split(s, sep) ==
    IF \A i \in 1..Len(s) : s[i] # sep
    THEN <<s>>
    ELSE LET i == CHOOSE k \in 1..Len(s) :
                     /\ s[k] = sep
                     /\ \A j \in 1..(k - 1) : s[j] # sep
         IN  <<SubSeq(s, 1, i - 1)>> \o str_split(SubSeq(s, i + 1, Len(s)), sep)

\* sep.join(parts)
RECURSIVE str_join(_, _)
str_join(parts, sep) ==
    IF parts = <<>> THEN <<>>
    ELSE IF Len(parts) = 1 THEN parts[1]
    ELSE parts[1] \o sep \o str_join(Tail(parts), sep)

\* True when needle occurs somewhere in s (Python's "needle in s").
Contains(s, needle) == \E i \in 1..(Len(s) + 1) : OccursAt(s, needle, i)

(***************************************************************************)
(* construct_path                                                          *)
(***************************************************************************)
\* The extensions dict with its last entry lost.
extensions_without_skeletons ==
    << << <<"m", "e", "t", "a">>,
          <<".", "f", "e", "a", "t", "h", "e", "r">> >>,
       << <<"e", "d", "g", "e", "l", "i", "s", "t">>,
          <<".", "f", "e", "a", "t", "h", "e", "r">> >>,
       << <<"e", "d", "g", "e", "l", "i", "s", "t", "_", "s", "i", "m", "p", "l", "e">>,
          <<".", "f", "e", "a", "t", "h", "e", "r">> >>,
       << <<"s", "y", "n", "a", "p", "s", "e", "s">>,
          <<".", "p", "a", "r", "q", "u", "e", "t">> >> >>

\* The extensions dict, in insertion order: <<key, value>> pairs.
extensions ==
    << << <<"m", "e", "t", "a">>,
          <<".", "f", "e", "a", "t", "h", "e", "r">> >>,
       << <<"e", "d", "g", "e", "l", "i", "s", "t">>,
          <<".", "f", "e", "a", "t", "h", "e", "r">> >>,
       << <<"e", "d", "g", "e", "l", "i", "s", "t", "_", "s", "i", "m", "p", "l", "e">>,
          <<".", "f", "e", "a", "t", "h", "e", "r">> >>,
       << <<"s", "y", "n", "a", "p", "s", "e", "s">>,
          <<".", "p", "a", "r", "q", "u", "e", "t">> >>,
       << <<"s", "k", "e", "l", "e", "t", "o", "n", "s">>,
          <<>> >> >>

\* extensions.keys()
extensions_keys == [i \in 1..Len(extensions) |-> extensions[i][1]]

\* extensions[file_type], for a file_type that is a key.
extensions_get(file_type) ==
    LET i == CHOOSE k \in 1..Len(extensions) : extensions[k][1] = file_type
    IN  extensions[i][2]

\* The ValueError message of an unknown file_type.
unknown_file_type_message(file_type) ==
    <<"U", "n", "k", "n", "o", "w", "n", " ", "f", "i", "l", "e", "_", "t", "y", "p", "e", ":", " ">>
    \o file_type
    \o <<".", " ", "C", "h", "o", "o", "s", "e", ":", " ">>
    \o str_join(extensions_keys, <<",", " ">>)

\* construct_filename without the edgelist_simple branch: the file_type is
\* appended as it is.
construct_filename_plain_simple(dataset, dataset_name, file_type, space_suffix, extension) ==
    IF file_type = <<"s", "k", "e", "l", "e", "t", "o", "n", "s">>
    THEN LET suffix == IF space_suffix.none
                       THEN dataset_name \o <<"_", "s", "p", "a", "c", "e">>
                       ELSE space_suffix.v
         IN  IF dataset_name = <<"b", "a", "n", "c">>
             THEN dataset_name \o <<"_">> \o suffix
                      \o <<"_", "l", "2", "_", "s", "w", "c">> \o extension
             ELSE dataset_name \o <<"_">> \o suffix
                      \o <<"_", "s", "w", "c">> \o extension
    ELSE dataset \o <<"_">> \o file_type \o extension

\* construct_filename with the banc test widened to a prefix test.
construct_filename_banc_prefix(dataset, dataset_name, file_type, space_suffix, extension) ==
    IF file_type = <<"s", "k", "e", "l", "e", "t", "o", "n", "s">>
    THEN LET suffix == IF space_suffix.none
                       THEN dataset_name \o <<"_", "s", "p", "a", "c", "e">>
                       ELSE space_suffix.v
         IN  IF startswith(dataset_name, <<"b", "a", "n", "c">>)
             THEN dataset_name \o <<"_">> \o suffix
                      \o <<"_", "l", "2", "_", "s", "w", "c">> \o extension
             ELSE dataset_name \o <<"_">> \o suffix
                      \o <<"_", "s", "w", "c">> \o extension
    ELSE IF file_type = <<"e", "d", "g", "e", "l", "i", "s", "t", "_", "s", "i", "m", "p", "l", "e">>
    THEN dataset
             \o <<"_", "s", "i", "m", "p", "l", "e", "_", "e", "d", "g", "e", "l", "i", "s", "t">>
             \o extension
    ELSE dataset \o <<"_">> \o file_type \o extension

\* The filename branch of construct_path, for a known file_type.
construct_filename(dataset, dataset_name, file_type, space_suffix, extension) ==
    IF file_type = <<"s", "k", "e", "l", "e", "t", "o", "n", "s">>
    THEN LET suffix == IF space_suffix.none
                       THEN dataset_name \o <<"_", "s", "p", "a", "c", "e">>
                       ELSE space_suffix.v
         IN  IF dataset_name = <<"b", "a", "n", "c">>
             THEN dataset_name \o <<"_">> \o suffix
                      \o <<"_", "l", "2", "_", "s", "w", "c">> \o extension
             ELSE dataset_name \o <<"_">> \o suffix
                      \o <<"_", "s", "w", "c">> \o extension
    ELSE IF file_type = <<"e", "d", "g", "e", "l", "i", "s", "t", "_", "s", "i", "m", "p", "l", "e">>
    THEN dataset
             \o <<"_", "s", "i", "m", "p", "l", "e", "_", "e", "d", "g", "e", "l", "i", "s", "t">>
             \o extension
    ELSE dataset \o <<"_">> \o file_type \o extension

\* construct_path(data_root, dataset, file_type, space_suffix): the returned
\* path, or the ValueError raised.
construct_path(data_root, dataset, file_type, space_suffix) ==
    LET dataset_name == str_split(dataset, "_")[1]
    IN  IF \A i \in 1..Len(extensions_keys) : extensions_keys[i] # file_type
        THEN [outcome |-> "ValueError",
              value   |-> unknown_file_type_message(file_type)]
        ELSE LET extension == extensions_get(file_type)
                 filename  == construct_filename(dataset, dataset_name, file_type,
                                                 space_suffix, extension)
             IN  [outcome |-> "ok",
                  value   |-> data_root \o <<"/">> \o dataset_name \o <<"/">> \o filename]

\* Inputs of construct_path explored by SpecPath.
DataRoots ==
    { <<"g", "s", ":", "/", "/", "r">>, <<"/", "d">> }

Datasets ==
    { <<"b", "a", "n", "c", "_", "7", "4", "6">>,
      <<"o", "t", "h", "e", "r", "f", "a", "m", "_", "1">>,
      <<"f", "a", "f", "b", "_", "7", "8", "3", "_", "v", "2">>,
      <<"h", "e", "m", "i", "b", "r", "a", "i", "n">>,
      <<"b", "a", "n", "c", "x", "_", "1">>,
      <<"b", "a", "n", "c">>,
      <<"_", "9">> }

TableKinds ==
    { <<"m", "e", "t", "a">>,
      <<"e", "d", "g", "e", "l", "i", "s", "t">>,
      <<"e", "d", "g", "e", "l", "i", "s", "t", "_", "s", "i", "m", "p", "l", "e">>,
      <<"s", "y", "n", "a", "p", "s", "e", "s">> }

SkeletonsKind == <<"s", "k", "e", "l", "e", "t", "o", "n", "s">>

ValidKinds == TableKinds \cup {SkeletonsKind}

FileTypes ==
    ValidKinds \cup
    { <<"m", "e", "s", "h">>,
      <<"M", "e", "t", "a">>,
      <<"s", "i", "m", "p", "l", "e", "_", "e", "d", "g", "e", "l", "i", "s", "t">>,
      <<>> }

SpaceSuffixes ==
    { NoneVal,
      Some(<<"b", "r", "a", "i", "n">>),
      Some(<<"x", "_", "l", "2">>),
      Some(<<>>) }

(***************************************************************************)
(* Initial state and the construct_path call                               *)
(***************************************************************************)
NoCall == [op |-> "none"]

\* No process is running a fetch.
NoProcs == <<>>

ConstructPathCall(data_root, dataset, file_type, space_suffix) ==
    /\ last' = [op           |-> "construct_path",
                data_root    |-> data_root,
                dataset      |-> dataset,
                file_type    |-> file_type,
                space_suffix |-> space_suffix,
                result       |-> construct_path(data_root, dataset, file_type,
                                                space_suffix)]
    /\ UNCHANGED <<remote, files, dirs, procs>>

InitPath ==
    /\ remote = <<>>
    /\ files = <<>>
    /\ dirs = {}
    /\ last = NoCall
    /\ procs = NoProcs

NextPath ==
    \E data_root \in DataRoots, dataset \in Datasets,
       file_type \in FileTypes, space_suffix \in SpaceSuffixes :
        ConstructPathCall(data_root, dataset, file_type, space_suffix)

SpecPath == InitPath /\ [][NextPath]_vars

(***************************************************************************)
(* The object store behind gcs_fs                                          *)
(***************************************************************************)
\* A raised exception or a returned value.
Raise(kind) == [outcome |-> kind, value |-> <<>>]

Return(x) == [outcome |-> "ok", value |-> x]

\* gcs_fs.open(key, 'rb') followed by reading the stream to its end: the
\* object's bytes, or the error of a missing object.  store maps the keys of
\* the objects that exist to their bytes.
gcs_open(store, key) ==
    IF key \in DOMAIN store THEN Return(store[key]) ELSE Raise("IOFailure")

(***************************************************************************)
(* read_swc_from_gcs and batch_read_swc_from_gcs                           *)
(***************************************************************************)
\* Fields of one SWC row: id, type, x, y, z, radius, parent.
SwcFields == 7

\* navis.read_swc on the bytes of a file: the rows of the tree, or a parse
\* failure when the text is empty or a row is cut short.
navis_read_swc(content) ==
    IF Len(content) = 0 \/ Len(content) % SwcFields # 0
    THEN Raise("ParseFailure")
    ELSE Return([r \in 1..(Len(content) \div SwcFields) |->
                    SubSeq(content, SwcFields * (r - 1) + 1, SwcFields * r)])

\* read_swc_from_gcs(gcs_fs, swc_path), gcs_fs being a client of store.
read_swc_from_gcs(store, swc_path) ==
    LET opened == gcs_open(store, swc_path)
    IN  IF opened.outcome # "ok" THEN opened
        ELSE navis_read_swc(opened.value)

\* The loop of batch_read_swc_from_gcs that stops at the first failure.
RECURSIVE batch_loop_break(_, _, _, _, _, _)
batch_loop_break(store, directory, filenames, show_progress, i, acc) ==
    IF i > Len(filenames) THEN acc
    ELSE LET filename == filenames[i]
             swc_path == directory \o <<"/">> \o filename
             got      == read_swc_from_gcs(store, swc_path)
             visited  == Append(acc.visited, swc_path)
         IN  IF got.outcome = "ok"
             THEN batch_loop_break(store, directory, filenames, show_progress,
                             i + 1,
                             [acc EXCEPT !.neurons = Append(@, got.value),
                                         !.visited = visited])
             ELSE [acc EXCEPT !.visited = visited]

\* The for loop of batch_read_swc_from_gcs from item i on; acc holds the
\* neurons list, the paths handed to read_swc_from_gcs and the printed lines.
RECURSIVE batch_loop(_, _, _, _, _, _)
batch_loop(store, directory, filenames, show_progress, i, acc) ==
    IF i > Len(filenames) THEN acc
    ELSE LET filename == filenames[i]
             swc_path == directory \o <<"/">> \o filename
             got      == read_swc_from_gcs(store, swc_path)
             visited  == Append(acc.visited, swc_path)
         IN  IF got.outcome = "ok"
             THEN batch_loop(store, directory, filenames, show_progress,
                             i + 1,
                             [acc EXCEPT !.neurons = Append(@, got.value),
                                         !.visited = visited])
             ELSE batch_loop(store, directory, filenames, show_progress,
                             i + 1,
                             [acc EXCEPT !.visited = visited,
                                         !.printed =
                                             IF show_progress
                                             THEN Append(@, <<filename, got.outcome>>)
                                             ELSE @])

\* batch_read_swc_from_gcs(gcs_fs, directory, filenames, show_progress)
batch_read_swc_from_gcs(store, directory, filenames, show_progress) ==
    LET done == batch_loop(store, directory, filenames, show_progress, 1,
                           [neurons |-> <<>>, visited |-> <<>>, printed |-> <<>>])
    IN  [result  |-> Return(done.neurons),
         visited |-> done.visited,
         printed |-> done.printed]

\* Longest list of filenames handed to a batch read.
MaxNames == 3

SwcDirectory == <<"s", "k">>

SwcFilenames == { <<"1">>, <<"2">>, <<"3">> }

SwcKey(filename) == SwcDirectory \o <<"/">> \o filename

\* A well-formed one-row SWC file for a neuron, and one cut short.
SwcGood(filename) == filename \o <<"1", "0", "0", "0", "1", "-1">>

SwcBad(filename) == filename \o <<"1", "0">>

\* The stores explored by SpecBatch: each file well-formed, cut short or absent.
SwcStores ==
    { [k \in {SwcKey(f) : f \in present} |->
          LET f == CHOOSE g \in present : SwcKey(g) = k
          IN  IF f \in bad THEN SwcBad(f) ELSE SwcGood(f)] :
      present \in SUBSET SwcFilenames, bad \in SUBSET SwcFilenames }

FilenameLists == UNION { [1..n -> SwcFilenames] : n \in 0..MaxNames }

BatchReadCall(filenames, show_progress) ==
    LET out == batch_read_swc_from_gcs(remote, SwcDirectory, filenames,
                                       show_progress)
    IN  /\ last' = [op            |-> "batch_read_swc_from_gcs",
                    directory     |-> SwcDirectory,
                    filenames     |-> filenames,
                    show_progress |-> show_progress,
                    result        |-> out.result,
                    visited       |-> out.visited,
                    printed       |-> out.printed]
        /\ UNCHANGED <<remote, files, dirs, procs>>

InitBatch ==
    /\ remote \in SwcStores
    /\ files = <<>>
    /\ dirs = {}
    /\ last = NoCall
    /\ procs = NoProcs

NextBatch ==
    \E filenames \in FilenameLists, show_progress \in BOOLEAN :
        BatchReadCall(filenames, show_progress)

SpecBatch == InitBatch /\ [][NextBatch]_vars

(***************************************************************************)
(* Tables and their file formats                                           *)
(*                                                                         *)
(* A table is a sequence of columns <<name, data>>.  A Feather file is the *)
(* Arrow magic, the columns as name and data tokens, and the magic again;  *)
(* a Parquet file is the same between Parquet magics.                      *)
(***************************************************************************)
FeatherMagic == "ARROW1"

ParquetMagic == "PAR1"

\* The columns of a table as a flat token sequence.
RECURSIVE encode_columns(_)
encode_columns(table) ==
    IF table = <<>> THEN <<>>
    ELSE <<table[1][1], table[1][2]>> \o encode_columns(Tail(table))

\* The token sequence between the magics read back as columns.
RECURSIVE decode_columns(_)
decode_columns(body) ==
    IF body = <<>> THEN <<>>
    ELSE << <<body[1], body[2]>> >> \o decode_columns(SubSeq(body, 3, Len(body)))

\* Writing a table in the format named by magic.
write_table(magic, table) == <<magic>> \o encode_columns(table) \o <<magic>>

\* Parsing bytes in the format named by magic.
parse_table(magic, content) ==
    IF /\ Len(content) >= 2
       /\ content[1] = magic
       /\ content[Len(content)] = magic
       /\ (Len(content) - 2) % 2 = 0
    THEN Return(decode_columns(SubSeq(content, 2, Len(content) - 1)))
    ELSE Raise("ParseFailure")

\* Keeping the requested columns, in the requested order; columns is NoneVal
\* (all columns) or Some(list of names).
select_columns(table, columns) ==
    IF columns.none THEN Return(table)
    ELSE IF \A i \in 1..Len(columns.v) :
                \E j \in 1..Len(table) : table[j][1] = columns.v[i]
    THEN Return([i \in 1..Len(columns.v) |->
                    table[CHOOSE j \in 1..Len(table) : table[j][1] = columns.v[i]]])
    ELSE Raise("ParseFailure")

\* df.to_feather(path): the bytes written.
to_feather(df) == write_table(FeatherMagic, df)

\* df.to_parquet(path): the bytes written.
to_parquet(df) == write_table(ParquetMagic, df)

\* feather.read_feather(source) on the bytes of the source.
feather_read_feather(content) == parse_table(FeatherMagic, content)

\* pq.read_table(source, columns=columns).to_pandas() on the bytes of the source.
pq_read_table(content, columns) ==
    LET parsed == parse_table(ParquetMagic, content)
    IN  IF parsed.outcome # "ok" THEN parsed
        ELSE select_columns(parsed.value, columns)

(***************************************************************************)
(* The local disk: fs_files maps the paths of the files that exist to      *)
(* their bytes, fs_dirs is the set of directories that exist.              *)
(***************************************************************************)
\* os.path.join(a, b)
os_path_join(a, b) ==
    IF startswith(b, <<"/">>) THEN b
    ELSE IF a = <<>> \/ a[Len(a)] = "/" THEN a \o b
    ELSE a \o <<"/">> \o b

\* An existence test that never finds anything.
os_path_exists_never(fs_files, fs_dirs, path) == FALSE

\* os.path.exists(path)
os_path_exists(fs_files, fs_dirs, path) ==
    path \in DOMAIN fs_files \/ path \in fs_dirs

\* os.makedirs(path, exist_ok=True): the directories afterwards.
os_makedirs(fs_dirs, path) == fs_dirs \cup {path}

\* A write that empties the disk first.
fs_write_clobber(fs_files, path, content) == [q \in {path} |-> content]

\* Writing bytes to path: the files afterwards.
fs_write(fs_files, path, content) ==
    [q \in DOMAIN fs_files \cup {path} |->
        IF q = path THEN content ELSE fs_files[q]]

\* Opening a local file for reading: its bytes, or the error of a missing file.
fs_read(fs_files, path) ==
    IF path \in DOMAIN fs_files THEN Return(fs_files[path]) ELSE Raise("IOFailure")

\* pd.read_feather(path) on a local path.
pd_read_feather(fs_files, path) ==
    LET opened == fs_read(fs_files, path)
    IN  IF opened.outcome # "ok" THEN opened
        ELSE feather_read_feather(opened.value)

\* pd.read_parquet(path, columns=columns) on a local path.
pd_read_parquet(fs_files, path, columns) ==
    LET opened == fs_read(fs_files, path)
    IN  IF opened.outcome # "ok" THEN opened
        ELSE pq_read_table(opened.value, columns)

(***************************************************************************)
(* Downloading an object (the part shared, line for line, by               *)
(* read_feather_gcs and read_parquet_gcs)                                  *)
(***************************************************************************)
\* One entry of the log of a call: the operation and its argument.
Op(call, arg) == [call |-> call, arg |-> arg]

\* chunk_size of the download loop.
chunk_size == 1024 * 1024

\* gcs_fs.info(key) as the stub answers it: info_mode "raise" raises,
\* "no_size" returns a dict without size, "zero" one with size 0 and "size"
\* one with the object's length.
gcs_info(store, key, info_mode) ==
    IF info_mode = "raise" \/ key \notin DOMAIN store THEN Raise("IOFailure")
    ELSE IF info_mode = "no_size" THEN Return([has_size |-> FALSE, size |-> 0])
    ELSE IF info_mode = "zero" THEN Return([has_size |-> TRUE, size |-> 0])
    ELSE Return([has_size |-> TRUE, size |-> Len(store[key])])

\* The try/except around gcs_fs.info: file_size, with NoneVal for None.
get_file_size(store, key, info_mode) ==
    LET file_info == gcs_info(store, key, info_mode)
    IN  IF file_info.outcome # "ok" THEN NoneVal
        ELSE IF file_info.value.has_size THEN Some(file_info.value.size)
        ELSE Some(0)

\* "if file_size:" of the code.
truthy_size(file_size) == ~file_size.none /\ file_size.v # 0

\* f.read(size) at offset pos of a stream that hands out at most max_read
\* bytes per call.
stream_read(content, pos, size, max_read) ==
    LET n == IF size < max_read THEN size ELSE max_read
        m == IF Len(content) - pos < n THEN Len(content) - pos ELSE n
    IN  SubSeq(content, pos + 1, pos + m)

\* The while loop that fills chunks, from offset pos on.
RECURSIVE read_chunks(_, _, _, _)
read_chunks(content, pos, max_read, chunks) ==
    LET chunk == stream_read(content, pos, chunk_size, max_read)
    IN  IF chunk = <<>> THEN chunks
        ELSE read_chunks(content, pos + Len(chunk), max_read, Append(chunks, chunk))

\* b''.join(chunks)
RECURSIVE bytes_join(_)
bytes_join(chunks) ==
    IF chunks = <<>> THEN <<>> ELSE chunks[1] \o bytes_join(Tail(chunks))

\* The download with the fallback path failing when the size is unknown.
download_needs_size(store, gcs_path, env) ==
    LET file_size == get_file_size(store, gcs_path, env.info)
        log0      == <<Op("info", gcs_path), Op("open", gcs_path)>>
        opened    == IF env.io = "fail_first" THEN Raise("IOFailure")
                     ELSE gcs_open(store, gcs_path)
    IN  IF opened.outcome # "ok"
        THEN [content |-> opened, log |-> log0]
        ELSE IF truthy_size(file_size)
        THEN [content |-> Return(bytes_join(
                              read_chunks(opened.value, 0, env.max_read, <<>>))),
              log     |-> Append(log0, Op("read_chunks", gcs_path))]
        ELSE [content |-> Raise("IOFailure"),
              log     |-> Append(log0, Op("read_direct", gcs_path))]

\* Lines "Get file size" to the end of the with block, up to the parse: the
\* bytes the parser is given (or the error of the open) and the calls made.
\* env is what the client does during this call: env.info the answer of info,
\* env.io whether an open fails, env.max_read the most bytes one read returns.
download(store, gcs_path, env) ==
    LET file_size == get_file_size(store, gcs_path, env.info)
        log0      == <<Op("info", gcs_path), Op("open", gcs_path)>>
        opened    == IF env.io = "fail_first" THEN Raise("IOFailure")
                     ELSE gcs_open(store, gcs_path)
    IN  IF opened.outcome # "ok"
        THEN [content |-> opened, log |-> log0]
        ELSE IF truthy_size(file_size)
        THEN [content |-> Return(bytes_join(
                              read_chunks(opened.value, 0, env.max_read, <<>>))),
              log     |-> Append(log0, Op("read_chunks", gcs_path))]
        ELSE [content |-> opened,
              log     |-> Append(log0, Op("read_direct", gcs_path))]

(***************************************************************************)
(* read_feather_gcs and read_parquet_gcs                                   *)
(*                                                                         *)
(* Each returns what the call returns or raises (result), the disk after   *)
(* it (files, dirs) and the calls it made on the client and the disk (log).*)
(***************************************************************************)
GsPrefix == <<"g", "s", ":", "/", "/">>

\* cache_filename = path.replace("gs://", "").replace("/", "_")
cache_filename_of(path) ==
    str_replace(str_replace(path, GsPrefix, <<>>), <<"/">>, <<"_">>)

\* gcs_path = path.replace("gs://", "")
gcs_path_of(path) == str_replace(path, GsPrefix, <<>>)

Outcome(result, fs_files, fs_dirs, log) ==
    [result |-> result, files |-> fs_files, dirs |-> fs_dirs, log |-> log]

\* read_feather_gcs that takes the cache file whenever there is one.
read_feather_gcs_ignores_use_cache(path, gcs_fs, cache_dir, use_cache, store, fs_files, fs_dirs, env) ==
    IF startswith(path, GsPrefix)
    THEN IF gcs_fs = "None"
         THEN Outcome(Raise("ValueError"), fs_files, fs_dirs, <<>>)
         ELSE
         LET cache_filename == cache_filename_of(path)
             cache_path     == os_path_join(cache_dir, cache_filename)
             looked         == <<Op("exists", cache_path)>>
         IN  IF os_path_exists(fs_files, fs_dirs, cache_path)
             THEN Outcome(pd_read_feather(fs_files, cache_path), fs_files, fs_dirs,
                          Append(looked, Op("read", cache_path)))
             ELSE
             LET gcs_path == gcs_path_of(path)
                 got      == download(store, gcs_path, env)
                 df       == IF got.content.outcome # "ok" THEN got.content
                             ELSE feather_read_feather(got.content.value)
                 log1     == looked \o got.log
             IN  IF df.outcome # "ok"
                 THEN Outcome(df, fs_files, fs_dirs, log1)
                 ELSE IF use_cache
                 THEN Outcome(df,
                              fs_write(fs_files, cache_path, to_feather(df.value)),
                              os_makedirs(fs_dirs, cache_dir),
                              log1 \o <<Op("makedirs", cache_dir),
                                        Op("write", cache_path)>>)
                 ELSE Outcome(df, fs_files, fs_dirs, log1)
    ELSE Outcome(pd_read_feather(fs_files, path), fs_files, fs_dirs,
                 <<Op("read", path)>>)

\* read_feather_gcs with the client checked only once the cache has missed.
read_feather_gcs_checks_client_late(path, gcs_fs, cache_dir, use_cache, store, fs_files, fs_dirs, env) ==
    IF startswith(path, GsPrefix)
    THEN LET cache_filename == cache_filename_of(path)
             cache_path     == os_path_join(cache_dir, cache_filename)
             looked         == IF use_cache THEN <<Op("exists", cache_path)>> ELSE <<>>
         IN  IF use_cache /\ os_path_exists(fs_files, fs_dirs, cache_path)
             THEN Outcome(pd_read_feather(fs_files, cache_path), fs_files, fs_dirs,
                          Append(looked, Op("read", cache_path)))
             ELSE IF gcs_fs = "None"
             THEN Outcome(Raise("ValueError"), fs_files, fs_dirs, looked)
             ELSE
             LET gcs_path == gcs_path_of(path)
                 got      == download(store, gcs_path, env)
                 df       == IF got.content.outcome # "ok" THEN got.content
                             ELSE feather_read_feather(got.content.value)
                 log1     == looked \o got.log
             IN  IF df.outcome # "ok"
                 THEN Outcome(df, fs_files, fs_dirs, log1)
                 ELSE IF use_cache
                 THEN Outcome(df,
                              fs_write(fs_files, cache_path, to_feather(df.value)),
                              os_makedirs(fs_dirs, cache_dir),
                              log1 \o <<Op("makedirs", cache_dir),
                                        Op("write", cache_path)>>)
                 ELSE Outcome(df, fs_files, fs_dirs, log1)
    ELSE Outcome(pd_read_feather(fs_files, path), fs_files, fs_dirs,
                 <<Op("read", path)>>)

\* read_feather_gcs(path, gcs_fs, cache_dir, use_cache)
read_feather_gcs(path, gcs_fs, cache_dir, use_cache, store, fs_files, fs_dirs, env) ==
    IF startswith(path, GsPrefix)
    THEN IF gcs_fs = "None"
         THEN Outcome(Raise("ValueError"), fs_files, fs_dirs, <<>>)
         ELSE
         LET cache_filename == cache_filename_of(path)
             cache_path     == os_path_join(cache_dir, cache_filename)
             looked         == IF use_cache THEN <<Op("exists", cache_path)>> ELSE <<>>
         IN  IF use_cache /\ os_path_exists(fs_files, fs_dirs, cache_path)
             THEN Outcome(pd_read_feather(fs_files, cache_path), fs_files, fs_dirs,
                          Append(looked, Op("read", cache_path)))
             ELSE
             LET gcs_path == gcs_path_of(path)
                 got      == download(store, gcs_path, env)
                 df       == IF got.content.outcome # "ok" THEN got.content
                             ELSE feather_read_feather(got.content.value)
                 log1     == looked \o got.log
             IN  IF df.outcome # "ok"
                 THEN Outcome(df, fs_files, fs_dirs, log1)
                 ELSE IF use_cache
                 THEN Outcome(df,
                              fs_write(fs_files, cache_path, to_feather(df.value)),
                              os_makedirs(fs_dirs, cache_dir),
                              log1 \o <<Op("makedirs", cache_dir),
                                        Op("write", cache_path)>>)
                 ELSE Outcome(df, fs_files, fs_dirs, log1)
    ELSE Outcome(pd_read_feather(fs_files, path), fs_files, fs_dirs,
                 <<Op("read", path)>>)

\* read_parquet_gcs that returns the subset when the read for the cache fails.
read_parquet_gcs_keeps_subset(path, gcs_fs, columns, cache_dir, use_cache, store, fs_files, fs_dirs, env) ==
    IF startswith(path, GsPrefix)
    THEN IF gcs_fs = "None"
         THEN Outcome(Raise("ValueError"), fs_files, fs_dirs, <<>>)
         ELSE
         LET cache_filename == cache_filename_of(path)
             cache_path     == os_path_join(cache_dir, cache_filename)
             looked         == IF use_cache THEN <<Op("exists", cache_path)>> ELSE <<>>
         IN  IF use_cache /\ os_path_exists(fs_files, fs_dirs, cache_path)
             THEN Outcome(pd_read_parquet(fs_files, cache_path, columns),
                          fs_files, fs_dirs,
                          Append(looked, Op("read", cache_path)))
             ELSE
             LET gcs_path == gcs_path_of(path)
                 got      == download(store, gcs_path, env)
                 df       == IF got.content.outcome # "ok" THEN got.content
                             ELSE pq_read_table(got.content.value, columns)
                 log1     == looked \o got.log
             IN  IF df.outcome # "ok"
                 THEN Outcome(df, fs_files, fs_dirs, log1)
                 ELSE IF ~use_cache
                 THEN Outcome(df, fs_files, fs_dirs, log1)
                 ELSE
                 LET dirs1 == os_makedirs(fs_dirs, cache_dir)
                     log2  == Append(log1, Op("makedirs", cache_dir))
                 IN  IF columns.none
                     THEN Outcome(df,
                                  fs_write(fs_files, cache_path, to_parquet(df.value)),
                                  dirs1,
                                  Append(log2, Op("write", cache_path)))
                     ELSE
                     LET log3    == log2 \o <<Op("open", gcs_path),
                                              Op("read_direct", gcs_path)>>
                         opened  == IF env.io = "fail_second" THEN Raise("IOFailure")
                                    ELSE gcs_open(store, gcs_path)
                         full_df == IF opened.outcome # "ok" THEN opened
                                    ELSE pq_read_table(opened.value, NoneVal)
                     IN  IF opened.outcome # "ok"
                         THEN Outcome(df, fs_files, dirs1,
                                      Append(log2, Op("open", gcs_path)))
                         ELSE IF full_df.outcome # "ok"
                         THEN Outcome(full_df, fs_files, dirs1, log3)
                         ELSE Outcome(df,
                                      fs_write(fs_files, cache_path,
                                               to_parquet(full_df.value)),
                                      dirs1,
                                      Append(log3, Op("write", cache_path)))
    ELSE Outcome(pd_read_parquet(fs_files, path, columns), fs_files, fs_dirs,
                 <<Op("read", path)>>)

\* read_parquet_gcs that caches the table it returns, without the second read.
read_parquet_gcs_caches_subset(path, gcs_fs, columns, cache_dir, use_cache, store, fs_files, fs_dirs, env) ==
    IF startswith(path, GsPrefix)
    THEN IF gcs_fs = "None"
         THEN Outcome(Raise("ValueError"), fs_files, fs_dirs, <<>>)
         ELSE
         LET cache_filename == cache_filename_of(path)
             cache_path     == os_path_join(cache_dir, cache_filename)
             looked         == IF use_cache THEN <<Op("exists", cache_path)>> ELSE <<>>
         IN  IF use_cache /\ os_path_exists(fs_files, fs_dirs, cache_path)
             THEN Outcome(pd_read_parquet(fs_files, cache_path, columns),
                          fs_files, fs_dirs,
                          Append(looked, Op("read", cache_path)))
             ELSE
             LET gcs_path == gcs_path_of(path)
                 got      == download(store, gcs_path, env)
                 df       == IF got.content.outcome # "ok" THEN got.content
                             ELSE pq_read_table(got.content.value, columns)
                 log1     == looked \o got.log
             IN  IF df.outcome # "ok"
                 THEN Outcome(df, fs_files, fs_dirs, log1)
                 ELSE IF ~use_cache
                 THEN Outcome(df, fs_files, fs_dirs, log1)
                 ELSE Outcome(df,
                              fs_write(fs_files, cache_path, to_parquet(df.value)),
                              os_makedirs(fs_dirs, cache_dir),
                              log1 \o <<Op("makedirs", cache_dir),
                                        Op("write", cache_path)>>)
    ELSE Outcome(pd_read_parquet(fs_files, path, columns), fs_files, fs_dirs,
                 <<Op("read", path)>>)

\* read_parquet_gcs(path, gcs_fs, columns, cache_dir, use_cache)
read_parquet_gcs(path, gcs_fs, columns, cache_dir, use_cache, store, fs_files, fs_dirs, env) ==
    IF startswith(path, GsPrefix)
    THEN IF gcs_fs = "None"
         THEN Outcome(Raise("ValueError"), fs_files, fs_dirs, <<>>)
         ELSE
         LET cache_filename == cache_filename_of(path)
             cache_path     == os_path_join(cache_dir, cache_filename)
             looked         == IF use_cache THEN <<Op("exists", cache_path)>> ELSE <<>>
         IN  IF use_cache /\ os_path_exists(fs_files, fs_dirs, cache_path)
             THEN Outcome(pd_read_parquet(fs_files, cache_path, columns),
                          fs_files, fs_dirs,
                          Append(looked, Op("read", cache_path)))
             ELSE
             LET gcs_path == gcs_path_of(path)
                 got      == download(store, gcs_path, env)
                 df       == IF got.content.outcome # "ok" THEN got.content
                             ELSE pq_read_table(got.content.value, columns)
                 log1     == looked \o got.log
             IN  IF df.outcome # "ok"
                 THEN Outcome(df, fs_files, fs_dirs, log1)
                 ELSE IF ~use_cache
                 THEN Outcome(df, fs_files, fs_dirs, log1)
                 ELSE
                 LET dirs1 == os_makedirs(fs_dirs, cache_dir)
                     log2  == Append(log1, Op("makedirs", cache_dir))
                 IN  IF columns.none
                     THEN Outcome(df,
                                  fs_write(fs_files, cache_path, to_parquet(df.value)),
                                  dirs1,
                                  Append(log2, Op("write", cache_path)))
                     ELSE
                     LET log3    == log2 \o <<Op("open", gcs_path),
                                              Op("read_direct", gcs_path)>>
                         opened  == IF env.io = "fail_second" THEN Raise("IOFailure")
                                    ELSE gcs_open(store, gcs_path)
                         full_df == IF opened.outcome # "ok" THEN opened
                                    ELSE pq_read_table(opened.value, NoneVal)
                     IN  IF opened.outcome # "ok"
                         THEN Outcome(opened, fs_files, dirs1,
                                      Append(log2, Op("open", gcs_path)))
                         ELSE IF full_df.outcome # "ok"
                         THEN Outcome(full_df, fs_files, dirs1, log3)
                         ELSE Outcome(df,
                                      fs_write(fs_files, cache_path,
                                               to_parquet(full_df.value)),
                                      dirs1,
                                      Append(log3, Op("write", cache_path)))
    ELSE Outcome(pd_read_parquet(fs_files, path, columns), fs_files, fs_dirs,
                 <<Op("read", path)>>)

(***************************************************************************)
(* The explored universe of the fetch calls                                *)
(***************************************************************************)
\* Most bytes a single read of a stream returns.
MaxRead == 2

Table1 == << <<"a", "1">>, <<"b", "2">> >>

Table2 == << <<"a", "3">>, <<"b", "4">> >>

\* What an object of the store can hold.
ObjectContents == { to_feather(Table1), to_parquet(Table2) }

RemotePaths ==
    { <<"g", "s", ":", "/", "/", "a", "/", "b", "_", "c">>,
      <<"g", "s", ":", "/", "/", "a", "_", "b", "/", "c">>,
      <<"g", "s", ":", "/", "/", "x">> }

RemoteKeys == { gcs_path_of(p) : p \in RemotePaths }

\* The object that is replaced while the program runs; the others keep their
\* first content.
ReplacedKey == <<"a", "/", "b", "_", "c">>

InitialRemote ==
    [k \in RemoteKeys |->
        IF k = <<"x">> THEN to_feather(Table1) ELSE to_parquet(Table2)]

LocalFeather == <<"d", "/", "t", ".", "f">>

LocalParquet == <<"d", "/", "t", ".", "p", "q">>

LocalPaths == { LocalFeather, LocalParquet }

Paths == RemotePaths \cup LocalPaths

CacheDirs == { <<".", "c", "a", "c", "h", "e">>, <<"a", "l", "t">> }

ColumnChoices == { NoneVal, Some(<<"a">>), Some(<<"b">>) }

InfoModes == { "raise", "no_size", "zero", "size" }

\* The client behaviour when the call never reaches the client.
QuietEnv == [info |-> "size", io |-> "ok", max_read |-> 1]

\* The client behaviours explored for a call whose log, under QuietEnv, is
\* probe: none when the client is not called; otherwise every answer of info
\* with the opens succeeding, and a failing first open, and a failing second
\* open when there is one.  Short reads matter only to the chunked read.
ClientBehaviours(probe) ==
    LET opens == Cardinality({ i \in 1..Len(probe) : probe[i].call = "open" })
    IN  IF opens = 0 THEN {QuietEnv}
        ELSE { [info |-> info, io |-> "ok", max_read |-> 1] : info \in InfoModes }
             \cup { [info |-> "size", io |-> "ok", max_read |-> n] : n \in 1..MaxRead }
             \cup { [info |-> "size", io |-> "fail_first", max_read |-> 1] }
             \cup IF opens > 1
                  THEN { [info |-> "size", io |-> "fail_second", max_read |-> 1] }
                  ELSE {}

(***************************************************************************)
(* Actions of the fetch specification                                      *)
(***************************************************************************)
ReadFeatherCall(path, gcs_fs, cache_dir, use_cache) ==
    /\ last = NoCall
    /\ \E env \in ClientBehaviours(
                      read_feather_gcs(path, gcs_fs, cache_dir, use_cache,
                                       remote, files, dirs, QuietEnv).log) :
           LET out == read_feather_gcs(path, gcs_fs, cache_dir, use_cache,
                                       remote, files, dirs, env)
           IN  /\ files' = out.files
               /\ dirs' = out.dirs
               /\ last' = [op        |-> "read_feather_gcs",
                           path      |-> path,
                           gcs_fs    |-> gcs_fs,
                           columns   |-> NoneVal,
                           cache_dir |-> cache_dir,
                           use_cache |-> use_cache,
                           info      |-> env.info,
                           io        |-> env.io,
                           result    |-> out.result,
                           log       |-> out.log,
                           pre_files |-> files,
                           pre_dirs  |-> dirs]
    /\ UNCHANGED <<remote, procs>>

ReadParquetCall(path, gcs_fs, columns, cache_dir, use_cache) ==
    /\ last = NoCall
    /\ \E env \in ClientBehaviours(
                      read_parquet_gcs(path, gcs_fs, columns, cache_dir, use_cache,
                                       remote, files, dirs, QuietEnv).log) :
           LET out == read_parquet_gcs(path, gcs_fs, columns, cache_dir, use_cache,
                                       remote, files, dirs, env)
           IN  /\ files' = out.files
               /\ dirs' = out.dirs
               /\ last' = [op        |-> "read_parquet_gcs",
                           path      |-> path,
                           gcs_fs    |-> gcs_fs,
                           columns   |-> columns,
                           cache_dir |-> cache_dir,
                           use_cache |-> use_cache,
                           info      |-> env.info,
                           io        |-> env.io,
                           result    |-> out.result,
                           log       |-> out.log,
                           pre_files |-> files,
                           pre_dirs  |-> dirs]
    /\ UNCHANGED <<remote, procs>>

\* The caller takes the result; the next call starts from here.
CallReturns ==
    /\ last # NoCall
    /\ last' = NoCall
    /\ UNCHANGED <<remote, files, dirs, procs>>

\* Between two calls the owner of the bucket replaces an object.
RemotePut(content) ==
    /\ last = NoCall
    /\ remote[ReplacedKey] # content
    /\ remote' = [remote EXCEPT ![ReplacedKey] = content]
    /\ UNCHANGED <<files, dirs, last, procs>>

Init ==
    /\ remote = InitialRemote
    /\ files = [p \in LocalPaths |->
                   IF p = LocalFeather THEN to_feather(Table1) ELSE to_parquet(Table2)]
    /\ dirs = {}
    /\ last = NoCall
    /\ procs = NoProcs

Next ==
    \/ \E path \in Paths, gcs_fs \in {"gcs", "None"}, cache_dir \in CacheDirs,
          use_cache \in BOOLEAN :
           ReadFeatherCall(path, gcs_fs, cache_dir, use_cache)
    \/ \E path \in Paths, gcs_fs \in {"gcs", "None"}, columns \in ColumnChoices,
          cache_dir \in CacheDirs, use_cache \in BOOLEAN :
           ReadParquetCall(path, gcs_fs, columns, cache_dir, use_cache)
    \/ CallReturns
    \/ \E content \in ObjectContents : RemotePut(content)

Spec == Init /\ [][Next]_vars

(***************************************************************************)
(* Claims about read_feather_gcs and read_parquet_gcs (checked under Spec) *)
(***************************************************************************)
IsFetch == last.op \in {"read_feather_gcs", "read_parquet_gcs"}

IsRemoteFetch == IsFetch /\ last.path \in RemotePaths

\* The path with its gs:// prefix removed.
KeyOf(path) == SubSeq(path, 6, Len(path))

\* The key with every / replaced by _.
FlatName(path) ==
    [i \in 1..Len(KeyOf(path)) |->
        IF KeyOf(path)[i] = "/" THEN "_" ELSE KeyOf(path)[i]]

\* The cache file of the last call.
CachePathOfCall == last.cache_dir \o <<"/">> \o FlatName(last.path)

\* The files under a directory.
FilesUnder(fs_files, dir) ==
    { q \in DOMAIN fs_files : startswith(q, dir \o <<"/">>) }

\* The calls of a log made on the client.
RemoteCalls(log) ==
    { i \in 1..Len(log) : log[i].call \in {"info", "open", "read_chunks", "read_direct"} }

\* The calls of a log that look at or change the cache directory dir.
CacheCalls(log, dir) ==
    { i \in 1..Len(log) :
        \/ log[i].call \in {"exists", "makedirs", "write"}
        \/ log[i].call = "read" /\ startswith(log[i].arg, dir \o <<"/">>) }

OpensOf(log) == { i \in 1..Len(log) : log[i].call = "open" }

\* The format the called function reads and writes.
MagicOfCall == IF last.op = "read_feather_gcs" THEN FeatherMagic ELSE ParquetMagic

\* What reading content in the format of the call, narrowed to its columns, gives.
ReadAs(content) ==
    LET parsed == parse_table(MagicOfCall, content)
    IN  IF parsed.outcome # "ok" THEN parsed
        ELSE select_columns(parsed.value, last.columns)

\* The last call was a caching fetch through a client.
IsCachingFetch == IsRemoteFetch /\ last.gcs_fs = "gcs" /\ last.use_cache

IsHit == IsCachingFetch /\ CachePathOfCall \in DOMAIN last.pre_files

\* C1: with a client and use_cache, a first successful call into an empty
\* cache directory writes exactly one file, at cache_dir/<flattened path>,
\* that reads back as the table; a call that finds the cache file returns the
\* table read from it and calls neither info nor open, whatever the object
\* holds by then.
C1_FillThenServeFromCache ==
    IsCachingFetch =>
        /\ (FilesUnder(last.pre_files, last.cache_dir) = {}
              /\ last.result.outcome = "ok")
           => /\ FilesUnder(files, last.cache_dir) = {CachePathOfCall}
              /\ ReadAs(files[CachePathOfCall]) = last.result
        /\ IsHit
           => /\ RemoteCalls(last.log) = {}
              /\ last.result = ReadAs(last.pre_files[CachePathOfCall])
              /\ files = last.pre_files

\* A hit that returns a table although the object now holds something else.
C1_Witness ==
    /\ IsHit
    /\ last.result.outcome = "ok"
    /\ remote[KeyOf(last.path)] # last.pre_files[CachePathOfCall]
    /\ parse_table(MagicOfCall, remote[KeyOf(last.path)]).outcome # "ok"

IsColumnFetch ==
    IsCachingFetch /\ last.op = "read_parquet_gcs" /\ ~last.columns.none

\* The names of the columns of a table.
ColumnNames(table) == [i \in 1..Len(table) |-> table[i][1]]

\* C2: read_parquet_gcs with use_cache and a column subset returns, on a
\* miss, only the requested columns, writes the whole table to the cache
\* file, and opens the object exactly once more than a fetch without
\* columns; on a hit it serves any column subset from the cache file without
\* a call on the client.
C2_SubsetReturnedFullTableCached ==
    IsColumnFetch =>
        /\ (~IsHit /\ last.result.outcome = "ok")
           => /\ ColumnNames(last.result.value) = last.columns.v
              /\ parse_table(ParquetMagic, files[CachePathOfCall]).value
                     = decode_columns(SubSeq(remote[KeyOf(last.path)], 2,
                                             Len(remote[KeyOf(last.path)]) - 1))
              /\ Cardinality(OpensOf(last.log)) = 2
        /\ IsHit
           => /\ RemoteCalls(last.log) = {}
              /\ last.result = ReadAs(last.pre_files[CachePathOfCall])

\* A miss asking for column b alone that leaves both columns in the cache file.
C2_Witness ==
    /\ IsColumnFetch
    /\ ~IsHit
    /\ last.columns = Some(<<"b">>)
    /\ last.result = Return(<< <<"b", "4">> >>)
    /\ files[CachePathOfCall] = to_parquet(Table2)

\* C3: a fetch of a local path needs no client and, whatever use_cache and
\* cache_dir are, makes no call on a client and neither looks at, creates nor
\* writes anything of the cache directory: it only reads the path it is given.
C3_LocalFetchLeavesCacheAlone ==
    (IsFetch /\ last.path \in LocalPaths) =>
        /\ last.result = ReadAs(last.pre_files[last.path])
        /\ last.result.outcome # "ValueError"
        /\ last.log = <<Op("read", last.path)>>
        /\ RemoteCalls(last.log) = {}
        /\ CacheCalls(last.log, last.cache_dir) = {}
        /\ files = last.pre_files
        /\ dirs = last.pre_dirs

C3_Witness ==
    /\ IsFetch
    /\ last.path \in LocalPaths
    /\ last.gcs_fs = "None"
    /\ last.use_cache
    /\ last.result.outcome = "ok"

\* C4: a fetch of a remote path without a client raises ValueError before
\* any cache lookup or remote call, also when the cache file exists, and
\* leaves the disk as it was.
C4_RemoteFetchNeedsClient ==
    (IsRemoteFetch /\ last.gcs_fs = "None") =>
        /\ last.result.outcome = "ValueError"
        /\ last.log = <<>>
        /\ files = last.pre_files
        /\ dirs = last.pre_dirs

C4_Witness ==
    /\ IsRemoteFetch
    /\ last.gcs_fs = "None"
    /\ last.use_cache
    /\ CachePathOfCall \in DOMAIN last.pre_files
    /\ last.result.outcome = "ValueError"

\* The last call downloaded the object and info gave no usable size.
IsSizelessDownload ==
    /\ IsRemoteFetch
    /\ \E i \in 1..Len(last.log) : last.log[i].call = "info"
    /\ last.info \in {"raise", "no_size", "zero"}

\* The same call as the last one, made on the same disk and store with info
\* answering the size and reads returning at most max_read bytes.
SizedRun(max_read) ==
    LET env == [info |-> "size", io |-> "ok", max_read |-> max_read]
    IN  IF last.op = "read_feather_gcs"
        THEN read_feather_gcs(last.path, last.gcs_fs, last.cache_dir, last.use_cache,
                              remote, last.pre_files, last.pre_dirs, env)
        ELSE read_parquet_gcs(last.path, last.gcs_fs, last.columns, last.cache_dir,
                              last.use_cache, remote, last.pre_files, last.pre_dirs,
                              env)

\* C9: on a download, an info that raises or gives no size or a zero size
\* does not end the call: the object is opened and read without the chunk
\* loop, and the result and the disk are those of the same call with the size
\* known and the object read in chunks.
C9_SizeLookupFailureIsHarmless ==
    IsSizelessDownload =>
        /\ \E i \in 1..Len(last.log) : last.log[i] = Op("open", KeyOf(last.path))
        /\ \E i \in 1..Len(last.log) : last.log[i] = Op("read_direct", KeyOf(last.path))
        /\ \A i \in 1..Len(last.log) : last.log[i].call # "read_chunks"
        /\ \A n \in 1..MaxRead :
               /\ \E i \in 1..Len(SizedRun(n).log) :
                      SizedRun(n).log[i].call = "read_chunks"
               /\ last.result = SizedRun(n).result
               /\ files = SizedRun(n).files
               /\ dirs = SizedRun(n).dirs

\* info raised, and the table was returned and cached all the same.
C9_Witness ==
    /\ IsSizelessDownload
    /\ last.info = "raise"
    /\ last.use_cache
    /\ last.result.outcome = "ok"
    /\ CachePathOfCall \notin DOMAIN last.pre_files
    /\ CachePathOfCall \in DOMAIN files

WritesOf(log) == { i \in 1..Len(log) : log[i].call = "write" }

\* C10: a fetch never changes or deletes a file that existed when it started,
\* writes at most one file, and writes only to a path where no file existed
\* when it started.
C10_CacheIsAppendOnly ==
    IsFetch =>
        /\ \A q \in DOMAIN last.pre_files :
               q \in DOMAIN files /\ files[q] = last.pre_files[q]
        /\ last.pre_dirs \subseteq dirs
        /\ Cardinality(WritesOf(last.log)) <= 1
        /\ \A i \in WritesOf(last.log) : last.log[i].arg \notin DOMAIN last.pre_files
        /\ \A q \in DOMAIN files \ DOMAIN last.pre_files :
               \E i \in WritesOf(last.log) : last.log[i].arg = q

\* A download with use_cache off while the cache file holds something older:
\* the file is left as it is.
C10_Witness ==
    /\ IsRemoteFetch
    /\ last.gcs_fs = "gcs"
    /\ ~last.use_cache
    /\ last.result.outcome = "ok"
    /\ CachePathOfCall \in DOMAIN last.pre_files
    /\ remote[KeyOf(last.path)] # last.pre_files[CachePathOfCall]
    /\ files = last.pre_files

\* The last call got as far as opening the remote object.
ReachedStore == IsRemoteFetch /\ last.gcs_fs = "gcs" /\ OpensOf(last.log) # {}

\* The read of the object fails.
FirstReadFails == last.io = "fail_first"

\* The object is read but does not parse as the called function's format, or
\* lacks a requested column.
FirstParseFails ==
    last.io # "fail_first" /\ ReadAs(remote[KeyOf(last.path)]).outcome # "ok"

\* read_parquet_gcs with a column subset and use_cache: the first read and
\* its parse succeed, the second read, made for the cache, fails.
ExtraReadFails ==
    /\ IsColumnFetch
    /\ last.io = "fail_second"
    /\ ReadAs(remote[KeyOf(last.path)]).outcome = "ok"

\* The log of the same call made again now, with a client that works.
AgainLog ==
    IF last.op = "read_feather_gcs"
    THEN read_feather_gcs(last.path, last.gcs_fs, last.cache_dir, last.use_cache,
                          remote, files, dirs, QuietEnv).log
    ELSE read_parquet_gcs(last.path, last.gcs_fs, last.columns, last.cache_dir,
                          last.use_cache, remote, files, dirs, QuietEnv).log

\* C13: when, on a cache miss, the remote read or the parse fails, or the
\* second read that read_parquet_gcs makes for the cache fails, the caller gets
\* that error and no table, no file is created or changed, and the same call
\* made again is again a miss that opens the remote object.
C13_FailedFetchLeavesNoCache ==
    (ReachedStore /\ (FirstReadFails \/ FirstParseFails \/ ExtraReadFails)) =>
        /\ last.result =
               Raise(IF FirstParseFails THEN "ParseFailure" ELSE "IOFailure")
        /\ files = last.pre_files
        /\ last.use_cache => CachePathOfCall \notin DOMAIN files
        /\ OpensOf(AgainLog) # {}
        /\ \A i \in 1..Len(AgainLog) : AgainLog[i].call # "read"

\* The second read fails after the subset was parsed: the caller gets the
\* error, the cache directory has been created and holds no file.
C13_Witness ==
    /\ ReachedStore
    /\ ExtraReadFails
    /\ last.result.outcome = "IOFailure"
    /\ dirs # last.pre_dirs
    /\ FilesUnder(files, last.cache_dir) = {}

\* The last call was a fetch through a client with use_cache=False.
IsUncachedFetch == IsRemoteFetch /\ last.gcs_fs = "gcs" /\ ~last.use_cache

\* C14: a remote fetch with use_cache=False makes no call on the cache: no
\* existence test, no read of a cache file, no makedirs, no write.  It opens the
\* remote object exactly once, also for read_parquet_gcs with a column subset,
\* and leaves the files and the directories as they were.
C14_UncachedFetchBypassesCache ==
    IsUncachedFetch =>
        /\ CacheCalls(last.log, last.cache_dir) = {}
        /\ \A i \in 1..Len(last.log) : last.log[i].call # "read"
        /\ Cardinality(OpensOf(last.log)) = 1
        /\ \A i \in OpensOf(last.log) : last.log[i].arg = KeyOf(last.path)
        /\ files = last.pre_files
        /\ dirs = last.pre_dirs

\* A column-subset fetch with use_cache=False while a cache file for the path
\* exists: the object is opened once and the table returned.
C14_Witness ==
    /\ IsUncachedFetch
    /\ last.op = "read_parquet_gcs"
    /\ ~last.columns.none
    /\ CachePathOfCall \in DOMAIN last.pre_files
    /\ last.result.outcome = "ok"
    /\ Cardinality(OpensOf(last.log)) = 1

(***************************************************************************)
(* Claims about batch_read_swc_from_gcs (checked under SpecBatch)          *)
(***************************************************************************)
IsBatchCall == last.op = "batch_read_swc_from_gcs"

\* Item i of the batch can be fetched and parsed: the object exists and its
\* text is whole rows.
ItemSucceeds(i) ==
    LET key == last.directory \o <<"/">> \o last.filenames[i]
    IN  /\ key \in DOMAIN remote
        /\ Len(remote[key]) > 0
        /\ Len(remote[key]) % 7 = 0

Successes == { i \in 1..Len(last.filenames) : ItemSucceeds(i) }

\* The k-th success in input order.
KthSuccess(k) ==
    CHOOSE i \in Successes : Cardinality({ j \in Successes : j <= i }) = k

\* C8: a batch read visits every name once in input order, lets no exception
\* escape, and returns exactly the successfully parsed items in input order,
\* whatever items fail and whatever show_progress is.
C8_BatchSkipsFailures ==
    IsBatchCall =>
        /\ last.result.outcome = "ok"
        /\ last.visited =
               [i \in 1..Len(last.filenames) |->
                    last.directory \o <<"/">> \o last.filenames[i]]
        /\ Len(last.result.value) = Cardinality(Successes)
        /\ \A k \in 1..Cardinality(Successes) :
               last.result.value[k] =
                   << last.filenames[KthSuccess(k)] \o <<"1", "0", "0", "0", "1", "-1">> >>
        /\ Cardinality(Successes) = Len(last.filenames) - 1
               => Len(last.result.value) = Len(last.filenames) - 1

\* Three names, the second one fails to parse, progress reporting off.
C8_Witness ==
    /\ IsBatchCall
    /\ Len(last.filenames) = 3
    /\ ~last.show_progress
    /\ Successes = {1, 3}
    /\ last.visited[2] \in DOMAIN remote
    /\ Len(last.result.value) = 2

(***************************************************************************)
(* Claims about construct_path (checked under SpecPath)                    *)
(***************************************************************************)
IsPathCall == last.op = "construct_path"

\* The text "meta, edgelist, edgelist_simple, synapses, skeletons".
FiveKindsText ==
    <<"m", "e", "t", "a", ",", " ",
      "e", "d", "g", "e", "l", "i", "s", "t", ",", " ",
      "e", "d", "g", "e", "l", "i", "s", "t", "_", "s", "i", "m", "p", "l", "e", ",", " ",
      "s", "y", "n", "a", "p", "s", "e", "s", ",", " ",
      "s", "k", "e", "l", "e", "t", "o", "n", "s">>

\* s ends with suffix.
EndsWith(s, suffix) ==
    /\ Len(suffix) <= Len(s)
    /\ SubSeq(s, Len(s) - Len(suffix) + 1, Len(s)) = suffix

\* The part of a dataset name before its first underscore (the whole name when
\* it has none), characterised without splitting.
FamilyOf(dataset) ==
    LET n == CHOOSE k \in 0..Len(dataset) :
                 /\ \A j \in 1..k : dataset[j] # "_"
                 /\ k = Len(dataset) \/ dataset[k + 1] = "_"
    IN  SubSeq(dataset, 1, n)

\* C5: construct_path with a file_type outside the five kinds raises ValueError
\* with a message that lists all five kinds, and returns a path for each of
\* the five kinds.
C5_UnknownKindRejected ==
    IsPathCall =>
        IF last.file_type \in ValidKinds
        THEN last.result.outcome = "ok"
        ELSE /\ last.result.outcome = "ValueError"
             /\ EndsWith(last.result.value, FiveKindsText)
             /\ \A kind \in ValidKinds : Contains(last.result.value, kind)

C5_Witness ==
    /\ IsPathCall
    /\ last.file_type = <<"m", "e", "s", "h">>
    /\ last.result.outcome = "ValueError"

\* The filename the naming table gives a table kind.
TableFilename(dataset, file_type) ==
    IF file_type = <<"m", "e", "t", "a">>
    THEN dataset \o <<"_", "m", "e", "t", "a", ".", "f", "e", "a", "t", "h", "e", "r">>
    ELSE IF file_type = <<"e", "d", "g", "e", "l", "i", "s", "t">>
    THEN dataset \o <<"_", "e", "d", "g", "e", "l", "i", "s", "t",
                      ".", "f", "e", "a", "t", "h", "e", "r">>
    ELSE IF file_type = <<"s", "y", "n", "a", "p", "s", "e", "s">>
    THEN dataset \o <<"_", "s", "y", "n", "a", "p", "s", "e", "s",
                      ".", "p", "a", "r", "q", "u", "e", "t">>
    ELSE dataset \o <<"_", "s", "i", "m", "p", "l", "e", "_", "e", "d", "g", "e", "l", "i", "s", "t",
                      ".", "f", "e", "a", "t", "h", "e", "r">>

\* C6: for the four table kinds construct_path returns root/family/filename
\* with the filename of the naming table; the simple edge list is named
\* {dataset}_simple_edgelist, never {dataset}_edgelist_simple.
C6_TablePathLayout ==
    (IsPathCall /\ last.file_type \in TableKinds) =>
        /\ last.result.outcome = "ok"
        /\ last.result.value =
               last.data_root \o <<"/">> \o FamilyOf(last.dataset) \o <<"/">>
                   \o TableFilename(last.dataset, last.file_type)
        /\ ~Contains(last.result.value,
                     last.dataset \o <<"_", "e", "d", "g", "e", "l", "i", "s", "t",
                                       "_", "s", "i", "m", "p", "l", "e">>)

C6_Witness ==
    /\ IsPathCall
    /\ last.dataset = <<"b", "a", "n", "c", "_", "7", "4", "6">>
    /\ last.file_type = <<"e", "d", "g", "e", "l", "i", "s", "t", "_", "s", "i", "m", "p", "l", "e">>
    /\ EndsWith(last.result.value,
                <<"/", "b", "a", "n", "c", "/", "b", "a", "n", "c", "_", "7", "4", "6",
                  "_", "s", "i", "m", "p", "l", "e", "_", "e", "d", "g", "e", "l", "i", "s", "t",
                  ".", "f", "e", "a", "t", "h", "e", "r">>)

\* C7: for skeletons the path is root/family/family_suffix_l2_swc when the
\* family is exactly "banc" and root/family/family_suffix_swc otherwise, the
\* suffix defaulting to family_space; with the default suffix the path of
\* banc_746 holds _l2_swc and that of otherfam_1 does not.
C7_SkeletonPath ==
    (IsPathCall /\ last.file_type = SkeletonsKind) =>
        LET family == FamilyOf(last.dataset)
            suffix == IF last.space_suffix = NoneVal
                      THEN family \o <<"_", "s", "p", "a", "c", "e">>
                      ELSE last.space_suffix.v
            tail   == IF family = <<"b", "a", "n", "c">>
                      THEN <<"_", "l", "2", "_", "s", "w", "c">>
                      ELSE <<"_", "s", "w", "c">>
        IN  /\ last.result.outcome = "ok"
            /\ last.result.value =
                   last.data_root \o <<"/">> \o family \o <<"/">>
                       \o family \o <<"_">> \o suffix \o tail
            /\ (last.space_suffix = NoneVal
                  /\ last.dataset = <<"b", "a", "n", "c", "_", "7", "4", "6">>)
               => Contains(last.result.value, <<"_", "l", "2", "_", "s", "w", "c">>)
            /\ (last.space_suffix = NoneVal
                  /\ last.dataset = <<"o", "t", "h", "e", "r", "f", "a", "m", "_", "1">>)
               => ~Contains(last.result.value, <<"_", "l", "2", "_", "s", "w", "c">>)

C7_Witness ==
    /\ IsPathCall
    /\ last.file_type = SkeletonsKind
    /\ last.space_suffix = NoneVal
    /\ last.dataset = <<"b", "a", "n", "c", "_", "7", "4", "6">>
    /\ EndsWith(last.result.value,
                <<"/", "b", "a", "n", "c", "/", "b", "a", "n", "c", "_",
                  "b", "a", "n", "c", "_", "s", "p", "a", "c", "e",
                  "_", "l", "2", "_", "s", "w", "c">>)

(***************************************************************************)
(* Two processes that fetch the same remote path at the same time, with    *)
(* use_cache=True and the same cache_dir.  The handlers take no lock, so   *)
(* each process advances through its call statement by statement and the   *)
(* statements of the two interleave freely.  to_feather and to_parquet     *)
(* open the cache file for writing, which creates or empties it, and then  *)
(* write the bytes in one or more pieces at the writer's own offset; the   *)
(* file is never written under another name and renamed.                   *)
(***************************************************************************)
Procs == {1, 2}

\* The table the object is replaced by while the processes run.
RaceTable == << <<"a", "5">> >>

RaceDir == <<".", "c", "a", "c", "h", "e">>

\* The path the two processes fetch, by the function they call.
RacePath(fn) ==
    IF fn = "read_feather_gcs" THEN <<"g", "s", ":", "/", "/", "x">>
    ELSE <<"g", "s", ":", "/", "/", "a", "/", "b", "_", "c">>

\* cache_path of the two calls.
RaceCachePath(fn) == os_path_join(RaceDir, cache_filename_of(RacePath(fn)))

\* The bytes df.to_feather / df.to_parquet writes for a table.
RaceBytes(fn, df) ==
    IF fn = "read_feather_gcs" THEN to_feather(df) ELSE to_parquet(df)

\* The byte of a hole left by a write beyond the end of the file.
Hole == "NUL"

\* write(piece) on a descriptor at offset off of a file holding old.
pwrite(old, off, piece) ==
    LET end == off + Len(piece)
        len == IF Len(old) > end THEN Len(old) ELSE end
    IN  [i \in 1..len |->
            IF i > off /\ i <= end THEN piece[i - off]
            ELSE IF i <= Len(old) THEN old[i]
            ELSE Hole]

\* A process at the first statement of its call.
ProcStart(fn) ==
    [pc |-> "start", fn |-> fn, saw |-> "none", df |-> <<>>, off |-> 0,
     rank |-> 0, result |-> Return(<<>>)]

\* How many processes have completed their cache write.
Finished == Cardinality({ q \in Procs : procs[q].rank > 0 })

\* if use_cache and os.path.exists(cache_path)
CheckCache(p) ==
    /\ procs[p].pc = "start"
    /\ LET hit == os_path_exists(files, dirs, RaceCachePath(procs[p].fn))
       IN  procs' = [procs EXCEPT ![p].pc = IF hit THEN "hit" ELSE "miss",
                                  ![p].saw = IF hit THEN "hit" ELSE "miss"]
    /\ UNCHANGED <<remote, files, dirs, last>>

\* df = pd.read_feather(cache_path) / pd.read_parquet(cache_path); return df
ReadCache(p) ==
    /\ procs[p].pc = "hit"
    /\ LET cache_path == RaceCachePath(procs[p].fn)
           df == IF procs[p].fn = "read_feather_gcs"
                 THEN pd_read_feather(files, cache_path)
                 ELSE pd_read_parquet(files, cache_path, NoneVal)
       IN  procs' = [procs EXCEPT ![p].pc = "done", ![p].result = df]
    /\ UNCHANGED <<remote, files, dirs, last>>

\* The download and the parse of the object.
Download(p) ==
    /\ procs[p].pc = "miss"
    /\ LET got == download(remote, gcs_path_of(RacePath(procs[p].fn)), QuietEnv)
           df  == IF got.content.outcome # "ok" THEN got.content
                  ELSE IF procs[p].fn = "read_feather_gcs"
                  THEN feather_read_feather(got.content.value)
                  ELSE pq_read_table(got.content.value, NoneVal)
       IN  procs' = IF df.outcome = "ok"
                    THEN [procs EXCEPT ![p].pc = "parsed", ![p].df = df.value]
                    ELSE [procs EXCEPT ![p].pc = "done", ![p].result = df]
    /\ UNCHANGED <<remote, files, dirs, last>>

\* os.makedirs(cache_dir, exist_ok=True)
MakeCacheDir(p) ==
    /\ procs[p].pc = "parsed"
    /\ dirs' = os_makedirs(dirs, RaceDir)
    /\ procs' = [procs EXCEPT ![p].pc = "open"]
    /\ UNCHANGED <<remote, files, last>>

\* df.to_feather(cache_path) / df.to_parquet(cache_path) opening the file
OpenForWrite(p) ==
    /\ procs[p].pc = "open"
    /\ files' = fs_write(files, RaceCachePath(procs[p].fn), <<>>)
    /\ procs' = [procs EXCEPT ![p].pc = "writing", ![p].off = 0]
    /\ UNCHANGED <<remote, dirs, last>>

\* The next piece of the bytes written; after the last piece, return df.
WritePiece(p) ==
    /\ procs[p].pc = "writing"
    /\ LET cache_path == RaceCachePath(procs[p].fn)
           out == RaceBytes(procs[p].fn, procs[p].df)
       IN  \E n \in 1..(Len(out) - procs[p].off) :
               LET piece == SubSeq(out, procs[p].off + 1, procs[p].off + n)
                   off1  == procs[p].off + n
               IN  /\ files' = fs_write(files, cache_path,
                                        pwrite(files[cache_path], procs[p].off, piece))
                   /\ procs' = IF off1 < Len(out)
                               THEN [procs EXCEPT ![p].off = off1]
                               ELSE [procs EXCEPT ![p].off = off1,
                                                  ![p].pc = "done",
                                                  ![p].rank = Finished + 1,
                                                  ![p].result = Return(procs[p].df)]
    /\ UNCHANGED <<remote, dirs, last>>

\* The remote object is replaced while the processes run.
RaceReplace ==
    /\ \E p \in Procs :
           LET key == gcs_path_of(RacePath(procs[p].fn))
               new == RaceBytes(procs[p].fn, RaceTable)
           IN  /\ remote[key] # new
               /\ remote' = [remote EXCEPT ![key] = new]
    /\ UNCHANGED <<files, dirs, last, procs>>

InitRace ==
    /\ remote = InitialRemote
    /\ files = <<>>
    /\ dirs = {}
    /\ last = NoCall
    /\ \E fn \in {"read_feather_gcs", "read_parquet_gcs"} :
           procs = [p \in Procs |-> ProcStart(fn)]

NextRace ==
    \/ \E p \in Procs : CheckCache(p)
    \/ \E p \in Procs : ReadCache(p)
    \/ \E p \in Procs : Download(p)
    \/ \E p \in Procs : MakeCacheDir(p)
    \/ \E p \in Procs : OpenForWrite(p)
    \/ \E p \in Procs : WritePiece(p)
    \/ RaceReplace

SpecRace == InitRace /\ [][NextRace]_vars

(***************************************************************************)
(* Claims about two concurrent fetches (checked under SpecRace)            *)
(***************************************************************************)
BothDone == \A p \in Procs : procs[p].pc = "done"

BothMissed == \A p \in Procs : procs[p].saw = "miss"

\* The bytes of the process that completed its cache write last.
LastWritten ==
    LET p == CHOOSE q \in Procs : procs[q].rank = Cardinality(Procs)
    IN  RaceBytes(procs[p].fn, procs[p].df)

\* C11: two processes fetch the same remote path with use_cache=True and the
\* same cache_dir.  No process gets an error from the race, and when both saw
\* a miss, downloaded and wrote the cache file, the file left on disk is the
\* one that was written last.
C11_LastWriterSilentlyWins ==
    /\ \A p \in Procs : procs[p].pc = "done" => procs[p].result.outcome = "ok"
    /\ (BothDone /\ BothMissed) =>
           files[RaceCachePath(procs[1].fn)] = LastWritten

\* Both processes saw a miss, both downloaded and both wrote the cache file.
C11_BothMissedAndWrote ==
    /\ BothDone
    /\ BothMissed
    /\ \A p \in Procs : procs[p].rank > 0

(***************************************************************************)
(* The cache path and the object key the handlers derive from a remote     *)
(* path, computed for pairs of remote paths.                               *)
(***************************************************************************)
MaxKeyLen == 2

KeyChars == { "a", "/", "_" }

\* The strings of one to n characters.
Words(n) == UNION { [1..k -> KeyChars] : k \in 1..n }

\* Remote paths: gs:// followed by a name, and names with a component that
\* starts with gs:// again.
KeyPaths ==
    RemotePaths
        \cup { GsPrefix \o t : t \in Words(MaxKeyLen) }
        \cup { GsPrefix \o t \o <<"/">> \o GsPrefix \o u :
                   t \in Words(1), u \in Words(1) }

\* cache_filename, cache_path and gcs_path as the handlers compute them for
\* path, and cache_path for a second path.
CachePathCall(path, other, cache_dir) ==
    /\ last = NoCall
    /\ last' = [op |-> "cache_path", path |-> path, other |-> other,
                cache_dir |-> cache_dir,
                cache_path |-> os_path_join(cache_dir, cache_filename_of(path)),
                other_cache_path |-> os_path_join(cache_dir, cache_filename_of(other)),
                gcs_path |-> gcs_path_of(path)]
    /\ UNCHANGED <<remote, files, dirs, procs>>

InitKey ==
    /\ remote = InitialRemote
    /\ files = <<>>
    /\ dirs = {}
    /\ last = NoCall
    /\ procs = NoProcs

NextKey ==
    \/ \E path \in KeyPaths, other \in KeyPaths, cache_dir \in CacheDirs :
           CachePathCall(path, other, cache_dir)
    \/ CallReturns

SpecKey == InitKey /\ [][NextKey]_vars

(***************************************************************************)
(* Claims about the cache path (checked under SpecKey)                     *)
(***************************************************************************)
IsCachePathCall == last.op = "cache_path"

\* C12: the cache path of a remote path is cache_dir/<the path with its gs://
\* prefix removed and every / replaced by _>, and two remote paths share a
\* cache path exactly when these flattened strings are equal.
C12_CachePathIsFlattenedPath ==
    IsCachePathCall =>
        /\ last.cache_path = last.cache_dir \o <<"/">> \o FlatName(last.path)
        /\ (last.cache_path = last.other_cache_path)
               <=> (FlatName(last.path) = FlatName(last.other))

\* The remote paths a/b_c and a_b/c have one cache path.
C12_Collision ==
    /\ IsCachePathCall
    /\ last.gcs_path = <<"a", "/", "b", "_", "c">>
    /\ gcs_path_of(last.other) = <<"a", "_", "b", "/", "c">>
    /\ last.cache_path = last.other_cache_path
    /\ last.cache_path = last.cache_dir \o <<"/">> \o FlatName(last.path)

====
